---- MODULE Spec2Model ----
(***************************************************************************)
(* Model of server.py, the local development HTTP server: command line     *)
(* parsing, the required-file check, the bind, the banner, the browser     *)
(* launch, the accept loop with its request handler, and the interrupt.    *)
(*                                                                         *)
(* A command line token is a sequence of one-character strings, so that    *)
(* int() is computed on the characters.  argv is sys.argv without the      *)
(* script name: argv[1] is sys.argv[1].                                    *)
(***************************************************************************)
EXTENDS Integers, Sequences, FiniteSets, TLC

VARIABLES argv, fs, PORT, pc, sock, exitcode, stdout, binds, bindPort,
          oserrno, browser, resp, sigints

vars == <<argv, fs, PORT, pc, sock, exitcode, stdout, binds, bindPort,
          oserrno, browser, resp, sigints>>

---------------------------------------------------------------------------
(* Bounds *)

MaxArgs == 2

---------------------------------------------------------------------------
(* Configuration *)

DEFAULT_PORT == 8000
HOST == "localhost"

PortFlag == <<"-", "-", "p", "o", "r", "t">>
HelpFlags == { <<"-", "h">>, <<"-", "-", "h", "e", "l", "p">> }

required_files == {"index.html"}
optional_files == {"js/order-manager.js", "quick-order-test.html",
                   "test-order-saving.html"}

(* errno values with which a platform reports "address already in use":    *)
(* 48 on macOS/BSD, 98 on Linux, 10048 (WSAEADDRINUSE) on Windows.         *)
EADDRINUSE == {48, 98, 10048}

(* The OSErrors of a bind: address in use, or 13 (EACCES). *)
BindErrnos == EADDRINUSE \cup {13}

(* The errno the handler of OSError compares against. *)
HandledErrno == 48

---------------------------------------------------------------------------
(* Command line tokens *)

RECURSIVE SeqsUpTo(_, _)
SeqsUpTo(S, n) ==
    IF n = 0 THEN { <<>> }
    ELSE LET shorter == SeqsUpTo(S, n - 1)
         IN  shorter \cup { Append(s, c) : s \in shorter, c \in S }

(* Values for --port (and arguments that are no flag): "0", "8", "80",     *)
(* "-8", "+8", " 8", "8_0", which int() accepts, and "a", "8a", "-",       *)
(* which it rejects.                                                       *)
ValueTokens ==
    { <<"0">>, <<"8">>, <<"8", "0">>, <<"-", "8">>, <<"+", "8">>,
      <<" ", "8">>, <<"8", "_", "0">>, <<"a">>, <<"8", "a">>, <<"-">> }
Tokens == ValueTokens \cup {PortFlag} \cup HelpFlags
ArgLists == SeqsUpTo(Tokens, MaxArgs)


---------------------------------------------------------------------------
(* int(str): optional surrounding whitespace, optional sign, decimal       *)
(* digits with single underscores allowed between digits.                  *)

DigitValue == [c \in {"0", "1", "2", "3", "4", "5", "6", "7", "8", "9"} |->
                 CASE c = "0" -> 0 [] c = "1" -> 1 [] c = "2" -> 2
                   [] c = "3" -> 3 [] c = "4" -> 4 [] c = "5" -> 5
                   [] c = "6" -> 6 [] c = "7" -> 7 [] c = "8" -> 8
                   [] c = "9" -> 9]

IsDigit(c) == c \in DOMAIN DigitValue
IsSpace(c) == c \in {" ", "\t", "\n"}

RECURSIVE LStrip(_)
LStrip(s) == IF s # <<>> /\ IsSpace(Head(s)) THEN LStrip(Tail(s)) ELSE s

RECURSIVE RStrip(_)
RStrip(s) == IF s # <<>> /\ IsSpace(s[Len(s)])
             THEN RStrip(SubSeq(s, 1, Len(s) - 1)) ELSE s

Strip(s) == RStrip(LStrip(s))

Unsigned(s) == LET t == Strip(s)
               IN  IF t # <<>> /\ Head(t) \in {"+", "-"} THEN Tail(t) ELSE t

IsNegative(s) == LET t == Strip(s) IN t # <<>> /\ Head(t) = "-"

IsDigitString(d) ==
    /\ d # <<>>
    /\ IsDigit(d[1])
    /\ IsDigit(d[Len(d)])
    /\ \A i \in 1..Len(d) : IsDigit(d[i]) \/ d[i] = "_"
    /\ \A i \in 1..(Len(d) - 1) : ~(d[i] = "_" /\ d[i + 1] = "_")

RECURSIVE DigitsValue(_, _)
DigitsValue(d, acc) ==
    IF d = <<>> THEN acc
    ELSE IF Head(d) = "_" THEN DigitsValue(Tail(d), acc)
    ELSE DigitsValue(Tail(d), 10 * acc + DigitValue[Head(d)])

(* int(s) raises ValueError exactly when IsInt(s) is false. *)
IsInt(s) == IsDigitString(Unsigned(s))

int(s) == IF IsNegative(s) THEN 0 - DigitsValue(Unsigned(s), 0)
          ELSE DigitsValue(Unsigned(s), 0)

---------------------------------------------------------------------------
(* Request handler: the header buffer is a sequence of <<name, value>>     *)
(* pairs; the status line is the pair <<"Status", code>> and the blank     *)
(* line that ends the header block is CRLF.                                *)

CRLF == <<"", "">>

CORS == << <<"Access-Control-Allow-Origin", "*">>,
           <<"Access-Control-Allow-Methods", "GET, POST, OPTIONS">>,
           <<"Access-Control-Allow-Headers", "Content-Type">> >>

send_response(buf, code) ==
    buf \o << <<"Status", code>>, <<"Server", "SimpleHTTP">>,
              <<"Date", "now">> >>

send_header(buf, name, value) == Append(buf, <<name, value>>)

base_end_headers(buf) == Append(buf, CRLF)

(* end_headers without the three send_header calls *)
end_headers_plain(buf) == base_end_headers(buf)

end_headers(buf) ==
    base_end_headers(
        send_header(send_header(send_header(buf,
            CORS[1][1], CORS[1][2]),
            CORS[2][1], CORS[2][2]),
            CORS[3][1], CORS[3][2]))

NoFile == "-"
ErrorPage == "error page"

Response(method, path, head, body, opened) ==
    [method |-> method, path |-> path, head |-> head, body |-> body,
     opened |-> opened]

send_error(method, path, code) ==
    Response(method, path,
             end_headers(
                 send_header(send_header(send_header(
                     send_response(<<>>, code),
                     "Connection", "close"),
                     "Content-Type", "text/html"),
                     "Content-Length", "len")),
             IF method # "HEAD" THEN ErrorPage ELSE "",
             NoFile)

(* send_head: open the file the path names, or answer 404. *)
send_head(method, path, files) ==
    IF path \in files
    THEN Response(method, path,
                  end_headers(
                      send_header(send_header(send_header(
                          send_response(<<>>, 200),
                          "Content-type", "guessed"),
                          "Content-Length", "len"),
                          "Last-Modified", "mtime")),
                  IF method = "GET" THEN path ELSE "",
                  path)
    ELSE send_error(method, path, 404)

(* OPTIONS answered by the file-serving logic *)
do_OPTIONS_as_GET(path, files) == send_head("OPTIONS", path, files)

do_OPTIONS(path, files) ==
    Response("OPTIONS", path, end_headers(send_response(<<>>, 200)), "",
             NoFile)

do_GET(path, files) == send_head("GET", path, files)
do_HEAD(path, files) == send_head("HEAD", path, files)

Methods == {"GET", "HEAD", "OPTIONS", "POST"}
Paths == {"index.html", "quick-order-test.html", "missing.html"}

(* handle_one_request: dispatch on do_<METHOD>, 501 when there is none. *)
handle_one_request(method, path, files) ==
    CASE method = "GET" -> do_GET(path, files)
      [] method = "HEAD" -> do_HEAD(path, files)
      [] method = "OPTIONS" -> do_OPTIONS(path, files)
      [] OTHER -> send_error(method, path, 501)

NoResponse == Response("-", "-", <<>>, "", NoFile)

---------------------------------------------------------------------------
(* check_files *)

missing_required(files) == required_files \ files
missing_optional(files) == optional_files \ files

(* check_files treating the optional files as required *)
check_files_strict(files) ==
    missing_required(files) = {} /\ missing_optional(files) = {}

check_files(files) == missing_required(files) = {}

check_files_output(files) ==
    IF missing_required(files) # {}
    THEN {"required_missing"}
    ELSE IF missing_optional(files) # {} THEN {"optional_missing"} ELSE {}

---------------------------------------------------------------------------
Running == -1

AllFiles == required_files \cup optional_files

(* The inputs of a run: a command line and the files of the working        *)
(* directory.  The parsing reads sys.argv[1] and sys.argv[2] only: command *)
(* lines of up to two arguments are run with every set of files, longer    *)
(* ones with all the files or none.                                        *)
Init ==
    /\ argv \in ArgLists
    /\ fs \in SUBSET AllFiles
    /\ (Len(argv) <= 2 \/ fs \in {AllFiles, {}})
    /\ PORT = DEFAULT_PORT
    /\ pc = "parse"
    /\ sock = "none"
    /\ exitcode = Running
    /\ stdout = {}
    /\ binds = 0
    /\ bindPort = 0
    /\ oserrno = 0
    /\ browser = "none"
    /\ resp = NoResponse
    /\ sigints = 0

Exit(code, msgs) ==
    /\ exitcode' = code
    /\ stdout' = stdout \cup msgs
    /\ pc' = "done"

(* sys.argv[1] == '--port' and len(sys.argv) > 2 *)
PortGiven(a) == Len(a) > 0 /\ a[1] = PortFlag /\ Len(a) > 1

(* sys.argv[1] in ['-h', '--help'] *)
HelpRequested_any(a) == \E i \in 1..Len(a) : a[i] \in HelpFlags

HelpRequested(a) == Len(a) > 0 /\ a[1] \in HelpFlags

(* try: PORT = int(...) except ValueError *)
ParsePort_lenient(tok) ==
    [ok |-> TRUE, port |-> IF IsInt(tok) THEN int(tok) ELSE DEFAULT_PORT]

ParsePort(tok) ==
    IF IsInt(tok) THEN [ok |-> TRUE, port |-> int(tok)]
    ELSE [ok |-> FALSE, port |-> DEFAULT_PORT]

(* __main__: command line parsing *)
ParseArgs ==
    /\ pc = "parse"
    /\ IF PortGiven(argv)
       THEN IF ParsePort(argv[2]).ok
            THEN /\ PORT' = ParsePort(argv[2]).port
                 /\ pc' = "check"
                 /\ UNCHANGED <<exitcode, stdout>>
            ELSE /\ Exit(1, {"port_must_be_number"})
                 /\ UNCHANGED PORT
       ELSE IF HelpRequested(argv)
            THEN /\ Exit(0, {"usage"})
                 /\ UNCHANGED PORT
            ELSE /\ pc' = "check"
                 /\ UNCHANGED <<PORT, exitcode, stdout>>
    /\ UNCHANGED <<argv, fs, sock, binds, bindPort, oserrno, browser, resp,
                   sigints>>

(* __main__: required-file check *)
CheckFiles ==
    /\ pc = "check"
    /\ IF check_files(fs)
       THEN /\ pc' = "bind"
            /\ stdout' = stdout \cup check_files_output(fs)
            /\ UNCHANGED exitcode
       ELSE Exit(1, check_files_output(fs) \cup {"run_from_root"})
    /\ UNCHANGED <<argv, fs, PORT, sock, binds, bindPort, oserrno, browser,
                   resp, sigints>>

(* The except clauses of start_server *)
OSErrorMessage(e) ==
    IF e = HandledErrno THEN {"port_in_use"} ELSE {"error_starting_server"}

(* A bind that, on address in use, tries the next port *)
BindServer_retry ==
    /\ pc = "bind"
    /\ binds' = binds + 1
    /\ bindPort' = PORT
    /\ IF PORT < 0 \/ PORT > 65535
       THEN /\ Exit(1, {"unexpected_error"})
            /\ sock' = "closed"
            /\ UNCHANGED <<oserrno, PORT>>
       ELSE \/ /\ sock' = "listening"
               /\ pc' = "banner"
               /\ UNCHANGED <<exitcode, stdout, oserrno, PORT>>
            \/ \E e \in BindErrnos :
                 /\ oserrno' = e
                 /\ IF e \in EADDRINUSE /\ binds < 2
                    THEN /\ PORT' = PORT + 1
                         /\ UNCHANGED <<sock, pc, exitcode, stdout>>
                    ELSE /\ sock' = "closed"
                         /\ Exit(1, OSErrorMessage(e))
                         /\ UNCHANGED PORT
    /\ UNCHANGED <<argv, fs, browser, resp, sigints>>

(* start_server: socketserver.TCPServer((HOST, PORT), ...) *)
BindServer ==
    /\ pc = "bind"
    /\ binds' = binds + 1
    /\ bindPort' = PORT
    /\ IF PORT < 0 \/ PORT > 65535
       THEN (* OverflowError from bind(): except Exception *)
            /\ Exit(1, {"unexpected_error"})
            /\ sock' = "closed"
            /\ UNCHANGED oserrno
       ELSE \/ /\ sock' = "listening"
               /\ pc' = "banner"
               /\ UNCHANGED <<exitcode, stdout, oserrno>>
            \/ \E e \in BindErrnos :
                 /\ oserrno' = e
                 /\ sock' = "closed"
                 /\ Exit(1, OSErrorMessage(e))
    /\ UNCHANGED <<argv, fs, PORT, browser, resp, sigints>>

(* start_server: the banner *)
PrintBanner ==
    /\ pc = "banner"
    /\ stdout' = stdout \cup {"banner"}
    /\ pc' = "browser"
    /\ UNCHANGED <<argv, fs, PORT, sock, exitcode, binds, bindPort, oserrno,
                   browser, resp, sigints>>

BrowserOutcomes == {"opened", "not_opened", "raised"}

(* What the inner try/except prints for an outcome of webbrowser.open:     *)
(* the call returning, with either value, is followed by the success       *)
(* message; an exception by the warning.                                   *)
BrowserMessage(outcome) ==
    IF outcome = "raised" THEN {"could_not_open_browser"}
    ELSE {"browser_opened"}

(* start_server: webbrowser.open and the messages that follow *)
OpenBrowser ==
    /\ pc = "browser"
    /\ \E outcome \in BrowserOutcomes :
         /\ browser' = outcome
         /\ stdout' = stdout \cup BrowserMessage(outcome)
                             \cup {"server_started"}
    /\ pc' = "serving"
    /\ UNCHANGED <<argv, fs, PORT, sock, exitcode, binds, bindPort, oserrno,
                   resp, sigints>>

(* httpd.serve_forever(): one request *)
HandleRequest ==
    /\ pc = "serving"
    /\ sock = "listening"
    /\ \E method \in Methods, path \in Paths :
         resp' = handle_one_request(method, path, fs)
    /\ stdout' = stdout \cup {"request_log"}
    /\ UNCHANGED <<argv, fs, PORT, pc, sock, exitcode, binds, bindPort,
                   oserrno, browser, sigints>>

(* Where a KeyboardInterrupt raised once the server is bound ends:         *)
(* the bare except around webbrowser.open catches it; everywhere else it   *)
(* reaches except KeyboardInterrupt after the with block closed the        *)
(* server.                                                                 *)
SwallowsInterrupt(at) == at = "browser"

Interrupt ==
    /\ pc \in {"banner", "browser", "serving"}
    /\ sigints' = sigints + 1
    /\ IF SwallowsInterrupt(pc)
       THEN /\ browser' = "interrupted"
            /\ stdout' = stdout \cup {"could_not_open_browser",
                                      "server_started"}
            /\ pc' = "serving"
            /\ UNCHANGED <<sock, exitcode>>
       ELSE /\ sock' = "closed"
            /\ Exit(0, {"stopped_by_user"})
            /\ UNCHANGED browser
    /\ UNCHANGED <<argv, fs, PORT, binds, bindPort, oserrno, resp>>

Next ==
    \/ ParseArgs
    \/ CheckFiles
    \/ BindServer
    \/ PrintBanner
    \/ OpenBrowser
    \/ HandleRequest
    \/ Interrupt

Spec == Init /\ [][Next]_vars

TypeOK ==
    /\ pc \in {"parse", "check", "bind", "banner", "browser", "serving",
               "done"}
    /\ sock \in {"none", "listening", "closed"}
    /\ exitcode \in {Running, 0, 1}
    /\ PORT \in Int
    /\ binds \in Nat
    /\ sigints \in 0..2

---------------------------------------------------------------------------
(* Vocabulary of the properties *)

(* The run got past the command line parsing without exiting there. *)
ParsedOK ==
    /\ pc # "parse"
    /\ "usage" \notin stdout
    /\ "port_must_be_number" \notin stdout

Status(r) == r.head[1][2]

IndexOf(head, h) ==
    IF \E i \in 1..Len(head) : head[i] = h
    THEN CHOOSE i \in 1..Len(head) : head[i] = h
    ELSE 0

(* The three CORS headers are in the header block, before the blank line   *)
(* that ends it.                                                           *)
HasCORS(r) ==
    /\ Len(r.head) > 0
    /\ r.head[Len(r.head)] = CRLF
    /\ \A k \in 1..3 :
         /\ IndexOf(r.head, CORS[k]) > 0
         /\ IndexOf(r.head, CORS[k]) < IndexOf(r.head, CRLF)

Lifecycle ==
    IF pc = "done" THEN "STOPPED"
    ELSE IF sock = "listening" THEN "LISTENING"
    ELSE "NOT_STARTED"

---------------------------------------------------------------------------
(* C1: in a run that got past the command line parsing, a missing          *)
(* index.html means exit status 1 and no socket at any point; with         *)
(* index.html present the run reaches the bind whichever optional files    *)
(* are absent.                                                             *)
Thm_C1 ==
    /\ "index.html" \notin fs => (sock = "none" /\ binds = 0)
    /\ (ParsedOK /\ pc # "check" /\ "index.html" \notin fs)
         => (pc = "done" /\ exitcode = 1)
    /\ (ParsedOK /\ pc # "check" /\ "index.html" \in fs)
         => /\ pc = "bind" \/ (binds = 1 /\ bindPort = PORT)
            /\ "required_missing" \notin stdout

Wit_C1 ==
    /\ "index.html" \in fs
    /\ missing_optional(fs) = optional_files
    /\ "optional_missing" \in stdout
    /\ binds = 1
    /\ sock = "listening"

(* C2: --port with a value that int() rejects: exit status 1 at the        *)
(* parsing, before the file check, and no socket at any point.             *)
Thm_C2 ==
    (Len(argv) >= 2 /\ argv[1] = PortFlag /\ ~IsInt(argv[2]))
      => /\ sock = "none"
         /\ binds = 0
         /\ pc \in {"parse", "done"}
         /\ pc = "done" => /\ exitcode = 1
                            /\ stdout = {"port_must_be_number"}

Wit_C2 ==
    /\ Len(argv) >= 2
    /\ argv[1] = PortFlag
    /\ ~IsInt(argv[2])
    /\ pc = "done"
    /\ exitcode = 1

(* C3: a bind that fails with any errno meaning address in use ends with   *)
(* exit status 1 and the port-in-use message, not the generic one.         *)
CE_C3 ==
    (pc = "done" /\ oserrno \in EADDRINUSE)
      => /\ exitcode = 1
         /\ "port_in_use" \in stdout
         /\ "error_starting_server" \notin stdout

(* C4: every response sent carries the three CORS headers inside its       *)
(* header block.                                                           *)
Thm_C4 == resp # NoResponse => HasCORS(resp)

Wit_C4 ==
    /\ resp.method = "GET"
    /\ resp.path = "missing.html"
    /\ Status(resp) = 404
    /\ HasCORS(resp)

(* C5: an OPTIONS request to any path is answered 200 with an empty body   *)
(* and the CORS headers, and no file is opened for it.                     *)
Thm_C5 ==
    resp.method = "OPTIONS"
      => /\ Status(resp) = 200
         /\ resp.body = ""
         /\ HasCORS(resp)
         /\ resp.opened = NoFile

Wit_C5 ==
    /\ resp.method = "OPTIONS"
    /\ resp.path = "index.html"
    /\ resp.path \in fs
    /\ Status(resp) = 200

(* C6: an interrupt delivered while the server is bound ends the run with  *)
(* exit status 0 and the socket closed.                                    *)
CE_C6 ==
    [][(sock = "listening" /\ sigints' = sigints + 1)
         => (pc' = "done" /\ exitcode' = 0 /\ sock' = "closed")]_vars

(* C7: the port of every bind attempt is a positive integer.               *)
CE_C7 == binds > 0 => bindPort > 0

(* C8: the lifecycle is NOT_STARTED -> LISTENING -> STOPPED or             *)
(* NOT_STARTED -> STOPPED; at most one bind per run, a failed bind ends    *)
(* the run, and the port never changes after the parsing.                  *)
Thm_C8 ==
    [][/\ <<Lifecycle, Lifecycle'>> \in
            { <<"NOT_STARTED", "NOT_STARTED">>, <<"NOT_STARTED", "LISTENING">>,
              <<"NOT_STARTED", "STOPPED">>, <<"LISTENING", "LISTENING">>,
              <<"LISTENING", "STOPPED">> }
       /\ binds' <= 1
       /\ (binds' > binds /\ sock' # "listening")
            => (Lifecycle' = "STOPPED" /\ exitcode' = 1)
       /\ pc # "parse" => PORT' = PORT
       /\ sock = "closed" => sock' = "closed"]_vars

Wit_C8 ==
    /\ pc = "done"
    /\ binds = 1
    /\ oserrno \in EADDRINUSE
    /\ sock = "closed"
    /\ exitcode = 1

(* C9: a browser launch that failed, by an exception or by the launcher    *)
(* returning false, leaves only the warning: no success message, no exit   *)
(* with an error.                                                          *)
CE_C9 ==
    browser \in {"not_opened", "raised"}
      => /\ "browser_opened" \notin stdout
         /\ "could_not_open_browser" \in stdout
         /\ exitcode # 1

====
